---- MODULE Spec2Model ----
(***************************************************************************)
(* Model of paddlex/deploy.py: the Predictor facade.                       *)
(*                                                                         *)
(* State: the Predictor instance the caller holds (self), the arguments    *)
(* of the last operation (call), what that operation returned or raised    *)
(* (ret), and the trace of calls it made to its collaborators (log): the   *)
(* file system, yaml, build_transforms, the per-family _preprocess and     *)
(* _postprocess routines and the native engine.                            *)
(*                                                                         *)
(* Every public method is one action that runs the method to its return    *)
(* or to the first exception that leaves it.  A Python exception is        *)
(* ret.raised /= ""; the value of a raising call is <<>>.  Between two     *)
(* calls the caller consumes the result (Discard); the Predictor stays.    *)
(*                                                                         *)
(* The collaborators outside deploy.py are deterministic: the per-family   *)
(* routines of paddlex.cv.models follow their description in the           *)
(* specification, and the native engine computes its outputs from the      *)
(* inputs bound in the call and throws in the native call named by the     *)
(* fault of that call, if any.                                             *)
(***************************************************************************)
EXTENDS Integers, Sequences, FiniteSets, TLC

VARIABLES self, call, ret, log

vars == <<self, call, ret, log>>

----------------------------------------------------------------------------
(* Bounds *)

MaxClasses == 2      \* num_classes ranges over 1..MaxClasses
MaxTopk == 2         \* requested topk ranges over 1..MaxTopk
NumImages == 2       \* distinct images 1..NumImages
MaxBatch == 2        \* image lists of length 1..MaxBatch

Min(a, b) == IF a < b THEN a ELSE b

Range(s) == {s[i] : i \in 1..Len(s)}

Images == 1..NumImages

Batches == UNION {[1..n -> Images] : n \in 1..MaxBatch}

TopKs == 1..MaxTopk

----------------------------------------------------------------------------
(* Collaborator call trace *)

Ev(fn, slot, n) == [fn |-> fn, slot |-> slot, n |-> n]

Fns(l) == {l[i].fn : i \in 1..Len(l)}

\* positions of the calls to fn in trace l
At(l, fn) == {i \in 1..Len(l) : l[i].fn = fn}

----------------------------------------------------------------------------
(* Outcomes *)

Return(v, l) == [raised |-> "", msg |-> <<>>, val |-> v, log |-> l]

Raise(e, m, l) == [raised |-> e, msg |-> m, val |-> <<>>, log |-> l]

----------------------------------------------------------------------------
(* The model directory and its descriptor (model.yml) *)

Labels(n) == [i \in 1..n |-> <<"label", i>>]

\* (model_type, Model) pairs of exported models; the last three are
\* combinations no branch of preprocess/postprocess fully recognises.
Families ==
    { <<"classifier", "ResNet50">>,
      <<"detector", "YOLOv3">>,
      <<"detector", "FasterRCNN">>,
      <<"detector", "MaskRCNN">>,
      <<"segmenter", "DeepLabv3p">>,
      <<"detector", "CascadeRCNN">>,
      <<"detector", "PPYOLO">>,
      <<"tracker", "DeepSort">> }

Statuses == {"Normal", "Quant", "Infer", "Quantized", "Inference"}

Absent == "<absent>"

TransformsModes == {Absent, "RGB", "BGR"}

\* _init_params.with_fpn of the exported model
WithFpn(model_name) ==
    IF model_name \in {"FasterRCNN", "MaskRCNN"} THEN BOOLEAN ELSE {FALSE}

Descriptor(st, v, n, tm) ==
    [status |-> st, Model |-> v[1][2], model_type |-> v[1][1],
     num_classes |-> n, labels |-> Labels(n), with_fpn |-> v[2],
     Transforms |-> <<"Normalize">>, TransformsMode |-> tm]

\* every status, family and class count without a TransformsMode entry, and
\* the exported inference models with every TransformsMode
Descriptors ==
    LET variants == {w \in Families \X BOOLEAN : w[2] \in WithFpn(w[1][2])}
    IN  { Descriptor(st, v, n, Absent) :
            st \in Statuses, v \in variants, n \in 1..MaxClasses }
        \cup
        { Descriptor("Infer", v, 1, tm) :
            v \in variants, tm \in TransformsModes }

NoInfo ==
    [status |-> "", Model |-> "", model_type |-> "", num_classes |-> 0,
     labels |-> <<>>, with_fpn |-> FALSE, Transforms |-> <<>>,
     TransformsMode |-> Absent]

\* kind: what the path names; has_yml: whether <path>/model.yml exists;
\* info: the parsed content of model.yml when it exists.
ModelDirs ==
    { [path |-> "no_such_dir", kind |-> "missing", has_yml |-> FALSE, info |-> NoInfo],
      [path |-> "a_file", kind |-> "file", has_yml |-> FALSE, info |-> NoInfo],
      [path |-> "empty_dir", kind |-> "dir", has_yml |-> FALSE, info |-> NoInfo] }
    \cup
    { [path |-> "model_dir", kind |-> "dir", has_yml |-> TRUE, info |-> d] :
        d \in Descriptors }

\* The input and output slots the serialized graph (__model__) declares.
GraphInputs(model_name) ==
    CASE model_name = "YOLOv3" -> {"image", "im_size"}
      [] model_name \in {"FasterRCNN", "MaskRCNN", "CascadeRCNN"} ->
            {"image", "im_info", "im_shape"}
      [] OTHER -> {"image"}

GraphOutputs(model_name) ==
    CASE model_name = "MaskRCNN" -> <<"bbox", "mask">>
      [] model_name \in {"YOLOv3", "FasterRCNN", "CascadeRCNN", "PPYOLO"} -> <<"bbox">>
      [] OTHER -> <<"out">>

----------------------------------------------------------------------------
(* Predictor.__init__ and create_predictor *)

Options ==
    { [use_gpu |-> TRUE, gpu_id |-> 0, use_mkl |-> FALSE, use_trt |-> FALSE,
       use_glog |-> FALSE, memory_optimize |-> TRUE],
      [use_gpu |-> FALSE, gpu_id |-> 0, use_mkl |-> TRUE, use_trt |-> TRUE,
       use_glog |-> TRUE, memory_optimize |-> FALSE] }

DefaultOptions ==
    [use_gpu |-> TRUE, gpu_id |-> 0, use_mkl |-> FALSE, use_trt |-> FALSE,
     use_glog |-> FALSE, memory_optimize |-> TRUE]

NoTransforms == [built |-> FALSE, model_type |-> "", to_rgb |-> FALSE]

NoEngine == [created |-> FALSE, inputs |-> {}, outputs |-> <<>>]

Unset == 0

NoPredictor ==
    [constructed |-> FALSE, info |-> NoInfo, status |-> "", model_dir |-> "",
     model_type |-> "", model_name |-> "", num_classes |-> 0, labels |-> <<>>,
     mask_head_resolution |-> Unset, transforms |-> NoTransforms,
     predictor |-> NoEngine]

\* the configuration calls of create_predictor, in order
create_predictor_log(model_name, o) ==
    <<Ev("AnalysisConfig", model_name, 0)>>
    \o (IF o.use_gpu THEN <<Ev("enable_use_gpu", "", o.gpu_id)>>
                     ELSE <<Ev("disable_gpu", "", 0)>>)
    \o (IF o.use_mkl THEN <<Ev("enable_mkldnn", "", 0)>> ELSE <<>>)
    \o (IF o.use_glog THEN <<Ev("enable_glog_info", "", 0)>>
                      ELSE <<Ev("disable_glog_info", "", 0)>>)
    \o (IF o.memory_optimize THEN <<Ev("enable_memory_optim", "", 0)>> ELSE <<>>)
    \o <<Ev("switch_ir_optim", "", 1), Ev("switch_use_feed_fetch_ops", "", 0),
         Ev("create_paddle_predictor", model_name, 0)>>

create_predictor(model_name) ==
    [created |-> TRUE, inputs |-> GraphInputs(model_name),
     outputs |-> GraphOutputs(model_name)]

\* every status accepted
StatusSupported_any(status) == TRUE

StatusSupported(status) == status = "Quant" \/ status = "Infer"

\* the existence test of model.yml left out
HasDescriptor_any(dir) == TRUE

HasDescriptor(dir) == dir.kind = "dir" /\ dir.has_yml

IsDir(dir) == dir.kind = "dir"

\* the two resolutions exchanged
MaskHeadResolution_swapped(info) ==
    IF info.Model = "MaskRCNN"
    THEN (IF info.with_fpn THEN 14 ELSE 28)
    ELSE Unset

MaskHeadResolution(info) ==
    IF info.Model = "MaskRCNN"
    THEN (IF info.with_fpn THEN 28 ELSE 14)
    ELSE Unset

ToRgb(info) ==
    LET transforms_mode == IF info.TransformsMode = Absent THEN "RGB"
                           ELSE info.TransformsMode
    IN  transforms_mode = "RGB"

\* model_type and model_name read from each other's field
Attributes_swapped(dir, info) ==
    [constructed |-> TRUE, info |-> info, status |-> info.status,
     model_dir |-> dir.path,
     model_type |-> info.Model, model_name |-> info.model_type,
     num_classes |-> info.num_classes, labels |-> info.labels,
     mask_head_resolution |-> MaskHeadResolution(info),
     transforms |-> [built |-> TRUE, model_type |-> info.model_type,
                     to_rgb |-> ToRgb(info)],
     predictor |-> create_predictor(info.Model)]

Attributes(dir, info) ==
    [constructed |-> TRUE, info |-> info, status |-> info.status,
     model_dir |-> dir.path,
     model_type |-> info.model_type, model_name |-> info.Model,
     num_classes |-> info.num_classes, labels |-> info.labels,
     mask_head_resolution |-> MaskHeadResolution(info),
     transforms |-> [built |-> TRUE, model_type |-> info.model_type,
                     to_rgb |-> ToRgb(info)],
     predictor |-> create_predictor(info.Model)]

\* result: Return(instance, log) or Raise(...)
Predictor_init(dir, o) ==
    LET l1 == <<Ev("osp.isdir", dir.path, 0)>>
        l2 == l1 \o <<Ev("osp.exists", "model.yml", 0)>>
        l3 == l2 \o <<Ev("open", "model.yml", 0)>>
        l4 == l3 \o <<Ev("yaml.load", "model.yml", 0)>>
        info == dir.info
        l5 == l4 \o <<Ev("build_transforms", info.model_type,
                         IF ToRgb(info) THEN 1 ELSE 0)>>
        l6 == l5 \o create_predictor_log(info.Model, o)
    IN  IF ~IsDir(dir)
        THEN Raise("Exception", <<"[ERROR] Path", dir.path, "not exist.">>, l1)
        ELSE IF ~HasDescriptor(dir)
        THEN Raise("Exception", <<"There's not", "model.yml", "in", dir.path>>, l2)
        ELSE IF ~(dir.kind = "dir" /\ dir.has_yml)
        THEN Raise("FileNotFoundError", <<"model.yml">>, l3)
        ELSE IF ~StatusSupported(info.status)
        THEN Raise("Exception",
                   <<"[ERROR] Only quantized model or exported",
                     "inference model is supported.">>, l4)
        ELSE Return(Attributes(dir, info), l6)

----------------------------------------------------------------------------
(* Tensors and name -> tensor mappings (Python dicts keep insertion order) *)

Tensor(key, images) == [key |-> key, batch |-> images]

Keys(d) == {d[i][1] : i \in 1..Len(d)}

\* d[k] = v
DictSet(d, k, v) ==
    IF k \in Keys(d)
    THEN [i \in 1..Len(d) |-> IF d[i][1] = k THEN <<k, v>> ELSE d[i]]
    ELSE Append(d, <<k, v>>)

\* the mapping with the given key order, every tensor made from one image list
Dict(layout, images) ==
    [i \in 1..Len(layout) |-> <<layout[i], Tensor(layout[i], images)>>]

----------------------------------------------------------------------------
(* Per-family preprocessing routines of paddlex.cv.models: decode,         *)
(* transform and stack the images; the result does not depend on the       *)
(* thread count.                                                           *)

BaseClassifier_preprocess(images, thread_num) == Tensor("image", images)

YOLOv3_preprocess(images, thread_num) ==
    <<Tensor("image", images), Tensor("im_size", images)>>

FasterRCNN_preprocess(images, thread_num) ==
    <<Tensor("image", images), Tensor("im_info", images),
      Tensor("im_shape", images)>>

DeepLabv3p_preprocess(images, thread_num) ==
    <<Tensor("image", images), Tensor("im_info", images)>>

----------------------------------------------------------------------------
(* Predictor.preprocess *)

\* model_name.count('RCNN') > 0
CountRCNN(model_name) ==
    model_name \in {"FasterRCNN", "MaskRCNN", "CascadeRCNN"}

preprocess(p, images, thread_num) ==
    LET res == <<>>
    IN  IF p.model_type = "classifier"
        THEN LET im == BaseClassifier_preprocess(images, thread_num)
             IN  Return(DictSet(res, "image", im),
                        <<Ev("BaseClassifier._preprocess", "", thread_num)>>)
        ELSE IF p.model_type = "detector"
        THEN LET y == YOLOv3_preprocess(images, thread_num)
                 res1 == IF p.model_name = "YOLOv3"
                         THEN DictSet(DictSet(res, "image", y[1]), "im_size", y[2])
                         ELSE res
                 l1 == IF p.model_name = "YOLOv3"
                       THEN <<Ev("YOLOv3._preprocess", "", thread_num)>>
                       ELSE <<>>
                 f == FasterRCNN_preprocess(images, thread_num)
                 res2 == IF CountRCNN(p.model_name)
                         THEN DictSet(DictSet(DictSet(res1, "image", f[1]),
                                              "im_info", f[2]), "im_shape", f[3])
                         ELSE res1
                 l2 == IF CountRCNN(p.model_name)
                       THEN l1 \o <<Ev("FasterRCNN._preprocess", "", thread_num)>>
                       ELSE l1
             IN  Return(res2, l2)
        ELSE IF p.model_type = "segmenter"
        THEN \* im, im_imfo = ...; res['im_info'] = im_info: im_info is unbound
             Raise("NameError", <<"im_info">>,
                   <<Ev("DeepLabv3p._preprocess", "", thread_num)>>)
        ELSE Return(res, <<>>)

----------------------------------------------------------------------------
(* Predictor.raw_predict *)

\* which native call, if any, throws during this call
Faults == {"none", "copy_from_cpu", "zero_copy_run", "copy_to_cpu"}

\* the engine's forward pass: every output is computed from the bound inputs
OutputTensor(name, feed) == [name |-> name, feed |-> feed]

\* for k, v in inputs.items(): st = [log, feed, raised]
RECURSIVE BindInputs(_, _, _, _, _)
BindInputs(engine, inputs, fault, i, st) ==
    IF i > Len(inputs) \/ st.raised /= ""
    THEN st
    ELSE LET k == inputs[i][1]
             v == inputs[i][2]
         IN  IF k \notin engine.inputs
             THEN \* get_input_tensor throws; except: continue
                  BindInputs(engine, inputs, fault, i + 1,
                      [st EXCEPT !.log = Append(@, Ev("get_input_tensor", k, 0))])
             ELSE IF fault = "copy_from_cpu"
             THEN [st EXCEPT !.log = @ \o <<Ev("get_input_tensor", k, 1),
                                            Ev("copy_from_cpu", k, 0)>>,
                             !.raised = "EngineError"]
             ELSE BindInputs(engine, inputs, fault, i + 1,
                      [st EXCEPT !.log = @ \o <<Ev("get_input_tensor", k, 1),
                                                Ev("copy_from_cpu", k, 1)>>,
                                 !.feed = @ \cup {<<k, v>>}])

\* for name in output_names: st = [log, out, raised]
RECURSIVE FetchOutputs(_, _, _, _, _)
FetchOutputs(output_names, feed, fault, i, st) ==
    IF i > Len(output_names) \/ st.raised /= ""
    THEN st
    ELSE IF fault = "copy_to_cpu"
    THEN [st EXCEPT !.log = Append(@, Ev("copy_to_cpu", output_names[i], 0)),
                    !.raised = "EngineError"]
    ELSE FetchOutputs(output_names, feed, fault, i + 1,
             [st EXCEPT !.log = Append(@, Ev("copy_to_cpu", output_names[i], 1)),
                        !.out = Append(@, OutputTensor(output_names[i], feed))])

\* a failing forward pass caught instead of propagated
raw_predict_swallow(p, inputs, fault) ==
    LET b == BindInputs(p.predictor, inputs, fault, 1,
                        [log |-> <<>>, feed |-> {}, raised |-> ""])
        lrun == Append(b.log, Ev("zero_copy_run", "",
                                 IF fault = "zero_copy_run" THEN 0 ELSE 1))
        lnames == Append(lrun, Ev("get_output_names", "", 1))
        f == FetchOutputs(p.predictor.outputs, b.feed, fault, 1,
                          [log |-> lnames, out |-> <<>>, raised |-> ""])
    IN  IF b.raised /= ""
        THEN Raise(b.raised, <<"copy_from_cpu">>, b.log)
        ELSE IF f.raised /= ""
        THEN Raise(f.raised, <<"copy_to_cpu">>, f.log)
        ELSE Return(f.out, f.log)

raw_predict(p, inputs, fault) ==
    LET b == BindInputs(p.predictor, inputs, fault, 1,
                        [log |-> <<>>, feed |-> {}, raised |-> ""])
        lrun == Append(b.log, Ev("zero_copy_run", "",
                                 IF fault = "zero_copy_run" THEN 0 ELSE 1))
        lnames == Append(lrun, Ev("get_output_names", "", 1))
        f == FetchOutputs(p.predictor.outputs, b.feed, fault, 1,
                          [log |-> lnames, out |-> <<>>, raised |-> ""])
    IN  IF b.raised /= ""
        THEN Raise(b.raised, <<"copy_from_cpu">>, b.log)
        ELSE IF fault = "zero_copy_run"
        THEN Raise("EngineError", <<"zero_copy_run">>, lrun)
        ELSE IF f.raised /= ""
        THEN Raise(f.raised, <<"copy_to_cpu">>, f.log)
        ELSE Return(f.out, f.log)

----------------------------------------------------------------------------
(* Per-family postprocessing routines of paddlex.cv.models *)

Result(kind, image, resolution, top) ==
    [kind |-> kind, image |-> image, resolution |-> resolution, top |-> top]

\* the image list the engine outputs were computed from
BatchOf(results) ==
    IF results = <<>> THEN <<>>
    ELSE LET ims == {kv \in results[1].feed : kv[1] = "image"}
         IN  IF ims = {} THEN <<>> ELSE (CHOOSE kv \in ims : TRUE)[2].batch

\* score of class c for an image, as read from the score tensor
Score(image, c) == (image * c) % 2

\* class a is ranked before class b: higher score, ties by ascending index
Before(image, a, b) ==
    \/ Score(image, a) > Score(image, b)
    \/ Score(image, a) = Score(image, b) /\ a < b

\* the k best (label, score) pairs among the classes of labels, best first
TopK(image, k, labels) ==
    LET cls == 1..Len(labels)
        Ranked(r) == CHOOSE c \in cls :
                        Cardinality({d \in cls : Before(image, d, c)}) = r - 1
    IN  [r \in 1..Min(k, Len(labels)) |->
            <<labels[Ranked(r)], Score(image, Ranked(r))>>]

BaseClassifier_postprocess(results, true_topk, labels) ==
    LET batch == BatchOf(results)
    IN  [i \in 1..Len(batch) |-> Result("topk", batch[i], 0,
                                        TopK(batch[i], true_topk, labels))]

\* one result per item the routine is told the batch holds
Detector_postprocess(kind, results, batch_size, resolution) ==
    LET batch == BatchOf(results)
    IN  [i \in 1..batch_size |->
            Result(kind, IF i <= Len(batch) THEN batch[i] ELSE 0, resolution, <<>>)]

----------------------------------------------------------------------------
(* Predictor.postprocess *)

\* topk passed on without the clamp
TrueTopk_unclamped(num_classes, topk) == topk

TrueTopk(num_classes, topk) == Min(num_classes, topk)

postprocess(p, results, topk, batch_size, im_shape) ==
    IF p.model_type = "classifier"
    THEN LET true_topk == TrueTopk(p.num_classes, topk)
         IN  Return(BaseClassifier_postprocess(results, true_topk, p.labels),
                    <<Ev("BaseClassifier._postprocess", "true_topk", true_topk)>>)
    ELSE IF p.model_type = "detector" /\ p.model_name = "YOLOv3"
    THEN Return(Detector_postprocess("bbox", results, batch_size, 0),
                <<Ev("YOLOv3._postprocess", "batch_size", batch_size)>>)
    ELSE IF p.model_type = "detector" /\ p.model_name = "FasterRCNN"
    THEN Return(Detector_postprocess("bbox", results, batch_size, 0),
                <<Ev("FasterRCNN._postprocess", "batch_size", batch_size)>>)
    ELSE IF p.model_type = "detector" /\ p.model_name = "MaskRCNN"
    THEN Return(Detector_postprocess("bbox+mask", results, batch_size,
                                     p.mask_head_resolution),
                <<Ev("MaskRCNN._postprocess", "batch_size", batch_size),
                  Ev("MaskRCNN._postprocess", "mask_head_resolution",
                     p.mask_head_resolution)>>)
    ELSE \* return preds: preds was never assigned
         Raise("UnboundLocalError", <<"preds">>, <<>>)

----------------------------------------------------------------------------
(* Predictor.predict and Predictor.batch_predict *)

NoneShape == <<>>

\* d[k]
DictGet(d, k) ==
    IF k \in Keys(d)
    THEN Return((CHOOSE kv \in Range(d) : kv[1] = k)[2], <<>>)
    ELSE Raise("KeyError", <<k>>, <<>>)

\* the lookup of predict alone with the condition the right way round
PredictImShape_fixed(preprocessed_input) ==
    IF "im_shape" \in Keys(preprocessed_input)
    THEN DictGet(preprocessed_input, "im_shape")
    ELSE Return(NoneShape, <<>>)

\* predict: None if 'im_shape' in preprocessed_input
\*          else preprocessed_input['im_shape']
PredictImShape(preprocessed_input) ==
    IF "im_shape" \in Keys(preprocessed_input)
    THEN Return(NoneShape, <<>>)
    ELSE DictGet(preprocessed_input, "im_shape")

\* batch_predict: the same expression
BatchPredictImShape(preprocessed_input) ==
    IF "im_shape" \in Keys(preprocessed_input)
    THEN Return(NoneShape, <<>>)
    ELSE DictGet(preprocessed_input, "im_shape")

\* raw_predict -> im_shape -> postprocess on the outcome of preprocess,
\* stopping at the first exception
Chain(p, pre, shp, topk, batch_size, fault) ==
    LET raw == raw_predict(p, pre.val, fault)
        post == postprocess(p, raw.val, topk, batch_size, shp.val)
    IN  IF pre.raised /= "" THEN pre
        ELSE IF raw.raised /= "" THEN [raw EXCEPT !.log = pre.log \o @]
        ELSE IF shp.raised /= "" THEN [shp EXCEPT !.log = pre.log \o raw.log]
        ELSE [post EXCEPT !.log = pre.log \o raw.log \o @]

\* results[0]
First(r) ==
    IF r.raised /= "" THEN r
    ELSE IF Len(r.val) = 0 THEN Raise("IndexError", <<"results[0]">>, r.log)
    ELSE [r EXCEPT !.val = r.val[1]]

predict(p, image, topk, fault) ==
    LET preprocessed_input == preprocess(p, <<image>>, 1)
    IN  First(Chain(p, preprocessed_input,
                    PredictImShape(preprocessed_input.val), topk, 1, fault))

batch_predict(p, image_list, topk, thread_num, fault) ==
    LET preprocessed_input == preprocess(p, image_list, thread_num)
    IN  Chain(p, preprocessed_input,
              BatchPredictImShape(preprocessed_input.val), topk, 1, fault)

----------------------------------------------------------------------------
(* Operations *)

NoCall ==
    [op |-> "", dir |-> CHOOSE d \in ModelDirs : d.kind = "missing",
     options |-> DefaultOptions, images |-> <<>>, topk |-> 0,
     thread_num |-> 0, batch_size |-> 0, inputs |-> <<>>, fault |-> "none"]

NoResult == [raised |-> "", msg |-> <<>>, val |-> <<>>]

Init ==
    /\ self = NoPredictor
    /\ call = NoCall
    /\ ret = NoResult
    /\ log = <<>>

\* the caller is between two calls: the last result, if any, was consumed
Idle == call.op = ""

Outcome(r) == [raised |-> r.raised, msg |-> r.msg, val |-> r.val]

\* p = Predictor(model_dir, **options)
Construct ==
    \E dir \in ModelDirs, o \in Options :
        LET r == Predictor_init(dir, o)
        IN  /\ Idle
            /\ ~self.constructed
            /\ call' = [NoCall EXCEPT !.op = "__init__", !.dir = dir, !.options = o]
            /\ self' = IF r.raised = "" THEN r.val ELSE NoPredictor
            /\ ret' = [raised |-> r.raised, msg |-> r.msg, val |-> <<>>]
            /\ log' = r.log

Finish(c, r) ==
    /\ call' = c
    /\ ret' = Outcome(r)
    /\ log' = r.log
    /\ UNCHANGED self

ThreadNums == {1, 2}

\* p.preprocess(images, thread_num)
Preprocess ==
    \E images \in Batches, thread_num \in ThreadNums :
        /\ Idle
        /\ self.constructed
        /\ Finish([NoCall EXCEPT !.op = "preprocess", !.images = images,
                                 !.thread_num = thread_num],
                  preprocess(self, images, thread_num))

\* the key orders of the mappings the preprocessing variants build
Layouts ==
    { <<>>, <<"image">>, <<"image", "im_size">>,
      <<"image", "im_info", "im_shape">> }

\* p.raw_predict(inputs)
RawPredict ==
    \E layout \in Layouts, images \in {<<i>> : i \in Images}, fault \in Faults :
        /\ Idle
        /\ self.constructed
        /\ Finish([NoCall EXCEPT !.op = "raw_predict", !.images = images,
                                 !.inputs = Dict(layout, images),
                                 !.fault = fault],
                  raw_predict(self, Dict(layout, images), fault))

\* the outputs of this predictor's engine for one image list
EngineResults(p, images) ==
    LET feed == {<<k, Tensor(k, images)>> : k \in p.predictor.inputs}
    IN  [i \in 1..Len(p.predictor.outputs) |->
            OutputTensor(p.predictor.outputs[i], feed)]

\* p.postprocess(results, topk, batch_size)
Postprocess ==
    \E images \in Batches, topk \in TopKs, batch_size \in 1..MaxBatch :
        /\ Idle
        /\ self.constructed
        /\ Finish([NoCall EXCEPT !.op = "postprocess", !.images = images,
                                 !.topk = topk, !.batch_size = batch_size],
                  postprocess(self, EngineResults(self, images), topk,
                              batch_size, NoneShape))

\* p.predict(image, topk)
Predict ==
    \E image \in Images, topk \in TopKs, fault \in Faults :
        /\ Idle
        /\ self.constructed
        /\ Finish([NoCall EXCEPT !.op = "predict", !.images = <<image>>,
                                 !.topk = topk, !.thread_num = 1,
                                 !.fault = fault],
                  predict(self, image, topk, fault))

\* p.batch_predict(image_list, topk, thread_num)
BatchPredict ==
    \E image_list \in Batches, topk \in TopKs, thread_num \in ThreadNums,
       fault \in Faults :
        /\ Idle
        /\ self.constructed
        /\ Finish([NoCall EXCEPT !.op = "batch_predict", !.images = image_list,
                                 !.topk = topk, !.thread_num = thread_num,
                                 !.fault = fault],
                  batch_predict(self, image_list, topk, thread_num, fault))

\* the caller consumes the result (or exception) of the last call; the
\* Predictor it holds, if any, stays
Discard ==
    /\ ~Idle
    /\ call' = NoCall
    /\ ret' = NoResult
    /\ log' = <<>>
    /\ UNCHANGED self

Next ==
    \/ Discard
    \/ Construct
    \/ Preprocess
    \/ RawPredict
    \/ Postprocess
    \/ Predict
    \/ BatchPredict

Spec == Init /\ [][Next]_vars

----------------------------------------------------------------------------
(* Properties *)

Constructing == call.op = "__init__"

DescriptorRead == Constructing /\ call.dir.kind = "dir" /\ call.dir.has_yml

EngineCalls == {"copy_from_cpu", "zero_copy_run", "copy_to_cpu"}

Exposes(p, info) ==
    /\ p.model_type = info.model_type
    /\ p.model_name = info.Model
    /\ p.num_classes = info.num_classes
    /\ p.labels = info.labels

\* C1 as stated: construction on an existing directory whose model.yml has
\* status "Inference" succeeds and exposes the descriptor's model_type,
\* Model, num_classes and labels.
C1_AsStated ==
    (DescriptorRead /\ call.dir.info.status = "Inference")
        => (ret.raised = "" /\ self.constructed /\ Exposes(self, call.dir.info))

\* C1 amended: construction on an existing directory whose model.yml has
\* status "Infer" succeeds and exposes the descriptor's model_type, Model,
\* num_classes and labels.
C1_ConstructionExposesDescriptor ==
    (DescriptorRead /\ call.dir.info.status = "Infer")
        => (ret.raised = "" /\ self.constructed /\ Exposes(self, call.dir.info))

C1_Witness ==
    /\ DescriptorRead
    /\ call.dir.info.status = "Infer"
    /\ self.constructed
    /\ self.model_name = "MaskRCNN"
    /\ self.num_classes = 2

FailedEarly ==
    /\ ret.raised /= ""
    /\ ~self.constructed
    /\ "build_transforms" \notin Fns(log)
    /\ "create_paddle_predictor" \notin Fns(log)

\* C2 as stated: for every status outside {"Quantized", "Inference"}
\* construction fails, before the transform pipeline is built and before an
\* engine handle is created.
C2_AsStated ==
    (DescriptorRead /\ call.dir.info.status \notin {"Quantized", "Inference"})
        => FailedEarly

\* C2 amended: for every status outside {"Quant", "Infer"} construction
\* fails, before the transform pipeline is built and before an engine handle
\* is created, and no Predictor instance results.
C2_UnsupportedStatusRejected ==
    (DescriptorRead /\ call.dir.info.status \notin {"Quant", "Infer"})
        => FailedEarly

C2_Witness ==
    /\ DescriptorRead
    /\ call.dir.info.status = "Inference"
    /\ ret.raised = "Exception"
    /\ "yaml.load" \in Fns(log)

\* C3: construction fails when the path is not an existing directory and
\* when the directory has no model.yml; in the second case the error names
\* model.yml; in both cases nothing is opened or parsed and no transform
\* pipeline or engine handle is made.
C3_MissingPathOrDescriptor ==
    (Constructing /\ (call.dir.kind /= "dir" \/ ~call.dir.has_yml))
        => /\ FailedEarly
           /\ "open" \notin Fns(log)
           /\ "yaml.load" \notin Fns(log)
           /\ (call.dir.kind = "dir" => "model.yml" \in Range(ret.msg))

C3_Witness ==
    /\ Constructing
    /\ call.dir.kind = "dir"
    /\ ~call.dir.has_yml
    /\ ret.raised = "Exception"
    /\ "model.yml" \in Range(ret.msg)

SupportedFamily(p) ==
    \/ p.model_type = "classifier"
    \/ p.model_type = "segmenter"
    \/ p.model_type = "detector"
       /\ p.model_name \in {"YOLOv3", "FasterRCNN", "MaskRCNN"}

\* the batch size the detector postprocessing routine was told, if any
ToldBatchSize(l, n) ==
    \A i \in 1..Len(l) : l[i].slot = "batch_size" => l[i].n = n

\* C4: batch_predict on N >= 1 images with a healthy engine returns exactly
\* N results, result i for image i, for every supported model family, and
\* postprocessing is told the batch holds N items.
C4_BatchPredictReturnsN ==
    (call.op = "batch_predict" /\ call.fault = "none" /\ SupportedFamily(self))
        => /\ ret.raised = ""
           /\ Len(ret.val) = Len(call.images)
           /\ \A i \in 1..Len(call.images) : ret.val[i].image = call.images[i]
           /\ ToldBatchSize(log, Len(call.images))

\* batch_predict(...)[0] as the caller evaluates it
Index0(r) ==
    IF r.raised /= "" THEN [raised |-> r.raised, val |-> <<>>]
    ELSE IF Len(r.val) = 0 THEN [raised |-> "IndexError", val |-> <<>>]
    ELSE [raised |-> "", val |-> r.val[1]]

SameOutcome(a, b) ==
    /\ a.raised = b.raised
    /\ (a.raised = "" => a.val = b.val)

\* C5: predict(image, topk) has the outcome of
\* batch_predict([image], topk, thread_num)[0] on the same Predictor with the
\* same engine behaviour, for every thread count: the same result or the
\* same error.
C5_PredictEqualsBatchOfOne ==
    /\ call.op = "predict" =>
          \A tn \in ThreadNums :
              SameOutcome(ret, Index0(batch_predict(self, call.images, call.topk,
                                                    tn, call.fault)))
    /\ (call.op = "batch_predict" /\ Len(call.images) = 1) =>
          SameOutcome(Index0(ret),
                      predict(self, call.images[1], call.topk, call.fault))

C5_Witness ==
    /\ call.op = "predict"
    /\ call.fault = "none"
    /\ ret.raised = ""
    /\ ret.val.image = call.images[1]
    /\ self.model_name = "FasterRCNN"

UnsupportedForPreprocess(p) ==
    \/ p.model_type \notin {"classifier", "detector", "segmenter"}
    \/ p.model_type = "detector"
       /\ p.model_name /= "YOLOv3" /\ ~CountRCNN(p.model_name)

UnsupportedForPostprocess(p) ==
    \/ p.model_type \notin {"classifier", "detector", "segmenter"}
    \/ p.model_type = "detector"
       /\ p.model_name \notin {"YOLOv3", "FasterRCNN", "MaskRCNN"}

\* C6: for a model_type/model_name no branch recognises, preprocess and
\* postprocess raise; preprocess never returns a mapping without 'image'.
C6_UnsupportedModelSignalled ==
    /\ (call.op = "preprocess" /\ UnsupportedForPreprocess(self))
          => ret.raised /= ""
    /\ (call.op = "postprocess" /\ UnsupportedForPostprocess(self))
          => ret.raised /= ""
    /\ (call.op = "preprocess" /\ ret.raised = "")
          => "image" \in Keys(ret.val)

\* C7: for a segmenter, preprocess returns a mapping with 'image' and
\* 'im_info', and postprocess returns a result instead of failing.
C7_SegmenterSupported ==
    /\ (call.op = "preprocess" /\ self.model_type = "segmenter")
          => (ret.raised = "" /\ {"image", "im_info"} \subseteq Keys(ret.val))
    /\ (call.op = "postprocess" /\ self.model_type = "segmenter")
          => ret.raised = ""

\* C8: for a classifier, postprocess asks the classifier routine for exactly
\* min(num_classes, topk) ranked results over the descriptor's labels, so
\* every image gets min(num_classes, topk) (label, score) pairs.
C8_TopkClamped ==
    (call.op = "postprocess" /\ self.model_type = "classifier")
        => LET k == IF self.num_classes < call.topk THEN self.num_classes
                    ELSE call.topk
           IN  /\ ret.raised = ""
               /\ log = <<Ev("BaseClassifier._postprocess", "true_topk", k)>>
               /\ Len(ret.val) = Len(call.images)
               /\ \A i \in 1..Len(ret.val) :
                     /\ Len(ret.val[i].top) = k
                     /\ \A r \in 1..k :
                           ret.val[i].top[r][1] \in Range(self.info.labels)

C8_Witness ==
    /\ call.op = "postprocess"
    /\ self.model_type = "classifier"
    /\ call.topk > self.num_classes
    /\ ret.raised = ""
    /\ Len(ret.val) = 2
    /\ Len(ret.val[1].top) = self.num_classes

\* the resolutions handed to mask decoding in trace l
MaskResolutions(l) ==
    {l[i].n : i \in {j \in 1..Len(l) : l[j].slot = "mask_head_resolution"}}

\* C9: for a Predictor loaded from a MaskRCNN descriptor, the mask-head
\* resolution is 28 if with_fpn was true at load time and 14 otherwise, in
\* every state after construction and in every call of mask decoding; for
\* any other model name none is set and none is used.
C9_MaskHeadResolution ==
    self.constructed =>
        IF self.info.Model = "MaskRCNN"
        THEN LET r == IF self.info.with_fpn THEN 28 ELSE 14
             IN  /\ self.mask_head_resolution = r
                 /\ MaskResolutions(log) \subseteq {r}
        ELSE /\ self.mask_head_resolution = Unset
             /\ MaskResolutions(log) = {}

C9_Witness ==
    /\ call.op = "predict"
    /\ self.info.Model = "MaskRCNN"
    /\ self.info.with_fpn
    /\ ret.raised = ""
    /\ ret.val.resolution = 28
    /\ MaskResolutions(log) = {28}

IsGet(e) == e.fn = "get_input_tensor"

IsCopy(e) == e.fn = "copy_from_cpu"

IsFetch(e) == e.fn = "copy_to_cpu"

Thrown(l) == {i \in 1..Len(l) : l[i].fn \in EngineCalls /\ l[i].n = 0}

\* C10: raw_predict visits the entries in order, copies those whose name the
\* engine declares and skips the others without error, runs the forward
\* pass once after all entries were visited, then reads one output per
\* declared output name in the declared order; a failing copy, forward pass
\* or read ends the call with that error and no output list.
C10_RawPredictOrder ==
    call.op = "raw_predict" =>
        LET eng == self.predictor
            inp == call.inputs
            gets == SelectSeq(log, IsGet)
            copies == SelectSeq(log, IsCopy)
            fetches == SelectSeq(log, IsFetch)
            runs == At(log, "zero_copy_run")
            Declared(kv) == kv[1] \in eng.inputs
            declared == SelectSeq(inp, Declared)
        IN  /\ Cardinality(runs) <= 1
            /\ \A j \in runs :
                  /\ \A i \in At(log, "get_input_tensor") \cup At(log, "copy_from_cpu") : i < j
                  /\ \A k \in At(log, "copy_to_cpu") : j < k
                  /\ Len(gets) = Len(inp)
                  /\ \A i \in 1..Len(inp) :
                        /\ gets[i].slot = inp[i][1]
                        /\ gets[i].n = (IF inp[i][1] \in eng.inputs THEN 1 ELSE 0)
                  /\ Len(copies) = Len(declared)
                  /\ \A i \in 1..Len(declared) : copies[i].slot = declared[i][1]
            /\ At(log, "copy_to_cpu") /= {} => runs /= {}
            /\ Thrown(log) = {} =>
                  /\ ret.raised = ""
                  /\ Cardinality(runs) = 1
                  /\ Len(fetches) = Len(eng.outputs)
                  /\ Len(ret.val) = Len(eng.outputs)
                  /\ \A i \in 1..Len(eng.outputs) :
                        /\ fetches[i].slot = eng.outputs[i]
                        /\ ret.val[i].name = eng.outputs[i]
                        /\ ret.val[i].feed = Range(declared)
            /\ Thrown(log) /= {} =>
                  /\ ret.raised = "EngineError"
                  /\ ret.val = <<>>
                  /\ Thrown(log) = {Len(log)}

C10_Witness ==
    /\ call.op = "raw_predict"
    /\ ret.raised = ""
    /\ Len(ret.val) = 2
    /\ \E i \in 1..Len(log) : log[i].fn = "get_input_tensor" /\ log[i].n = 0
    /\ \E i \in 1..Len(log) : log[i].fn = "copy_from_cpu" /\ log[i].n = 1

====
